---- MODULE Spec2Model ----
(***************************************************************************)
(* transfer-pull-requests.py: migration of merged Bitbucket pull requests  *)
(* to GitHub.  The module models the script's files (exclude list, state   *)
(* file, catalog cache), the local clone, the GitHub repository and the    *)
(* driver loop of main(), one action per statement that touches any of     *)
(* them.  Every external call (git, HTTP) answers nondeterministically.    *)
(* A process may be killed at any step (Crash) and the script may be       *)
(* started again (StartRun).                                               *)
(***************************************************************************)
EXTENDS Integers, Sequences, FiniteSets, TLC

\* ------------------------------------------------------------------ bounds
\* Pull requests of the Bitbucket repository: identifiers 1..NumPRs.
NumPRs == 2
\* Invocations of the script.
MaxRuns == 2
\* Wall-clock seconds 1..MaxClock.
MaxClock == 3
\* Records per page of the Bitbucket listing.
PageLen == 1

Ids == 1..NumPRs

Min(a, b) == IF a < b THEN a ELSE b

Range(s) == {s[k] : k \in DOMAIN s}

\* ------------------------------------------------------------- the catalog
\* A pull-request record as the listing returns it.  The source branch of
\* pull request n is its own branch; created_on grows with the identifier.
PullRequest(n) == [id |-> n, created_on |-> 10 * n]

OldestFirst == [k \in 1..NumPRs |-> PullRequest(k)]
NewestFirst == [k \in 1..NumPRs |-> PullRequest(NumPRs + 1 - k)]

\* The orders in which the listing may return the records.
ArrivalOrders == {OldestFirst, NewestFirst}

VARIABLES
    \* ---- environment
    bbCatalog,        \* the Bitbucket listing, in arrival order
    mirror,           \* identifiers whose source branch exists in the clone
    clock,            \* wall-clock time, seconds
    \* ---- files
    excludeFile,      \* exclude_prs.json: a set of identifiers
    trackFile,        \* transferred_prs.json: absent, valid or malformed
    cacheFile,        \* bitbucket_prs.json: absent, valid or partly written
    \* ---- GitHub
    github_base,      \* the base branch has been pushed to GitHub
    github_refs,      \* branches bitbucket-pr-<id>: pairs <<id, commit date>>
    github_pulls,     \* id -> states of the pull requests created for it
    \* ---- the process
    pc, run, exclude_prs, transferred_prs, prs, idx, url, exc,
    head_date,        \* commit date of temp-src-<pr_id> of the item (0: source tip,
                      \* also before the checkout, which resets the branch)
    created_pr,       \* created_pr['number']
    \* ---- history
    item,             \* identifier of the last item begun in this run (0: none)
    trail,            \* steps of that item that returned
    raised_at,        \* step of that item that raised
    touched,          \* identifiers whose item began in this run
    wrote,            \* a destination-host write succeeded in this run
    track_written,    \* the state file was opened for writing in this run
    prevComplete,     \* the previous run ended with nothing left to do
    pushed,           \* id -> commit dates pushed to bitbucket-pr-<id>
    recorded_as,      \* id -> the save_transferred call that returned for it
    halted_on,        \* item on which the previous run left the loop, until this
                      \* run is through with it (0: none)
    requests          \* GET requests sent to Bitbucket in this run

env    == <<bbCatalog, mirror, excludeFile>>
files  == <<trackFile, cacheFile>>
github == <<github_base, github_refs, github_pulls>>
proc   == <<exclude_prs, transferred_prs, prs, idx, url, exc, head_date, created_pr>>
hist   == <<item, trail, raised_at, touched, wrote, track_written, prevComplete, pushed,
            recorded_as, halted_on, requests>>
vars   == <<env, clock, files, github, pc, run, proc, hist>>

\* ------------------------------------------------------------------ files
Absent     == [kind |-> "absent", ids |-> {}]
Malformed  == [kind |-> "malformed", ids |-> {}]
Valid(s)   == [kind |-> "valid", ids |-> s]

\* What a reader of the state file finds in it.
PersistedIds == IF trackFile.kind = "valid" THEN trackFile.ids ELSE {}

NoCache      == [kind |-> "absent", prs |-> <<>>]
Cache(s)     == [kind |-> "valid", prs |-> s]
\* The cache file between open(..., 'w') and the end of json.dump: it exists
\* and does not parse.
PartialCache == [kind |-> "malformed", prs |-> <<>>]

\* ------------------------------------------------------------------- Init
Init ==
    /\ bbCatalog \in ArrivalOrders
    /\ excludeFile \in SUBSET Ids
    \* The branch of an excluded pull request is never looked at: it is taken
    \* to be there.
    /\ mirror \in {m \in SUBSET Ids : excludeFile \subseteq m}
    /\ clock = 1
    /\ trackFile = Absent
    /\ cacheFile = NoCache
    /\ github_base = FALSE
    /\ github_refs = {}
    /\ github_pulls = [n \in Ids |-> <<>>]
    /\ pc = "idle"
    /\ run = 0
    /\ exclude_prs = {}
    /\ transferred_prs = {}
    /\ prs = <<>>
    /\ idx = 0
    /\ url = 0
    /\ exc = "none"
    /\ head_date = 0
    /\ created_pr = 0
    /\ item = 0
    /\ trail = <<>>
    /\ raised_at = "none"
    /\ touched = {}
    /\ wrote = FALSE
    /\ track_written = FALSE
    /\ prevComplete = FALSE
    /\ pushed = [n \in Ids |-> <<>>]
    /\ recorded_as = [n \in Ids |-> "no"]
    /\ halted_on = 0
    /\ requests = 0

\* A listing that returns one pull request twice: the oldest one again at
\* the end, or the newest one first and again in its place.
RepeatedOrders ==
    {OldestFirst \o <<PullRequest(1)>>, <<PullRequest(NumPRs)>> \o OldestFirst}

\* The state before the first invocation, with such a listing.
InitRepeat ==
    /\ bbCatalog \in RepeatedOrders
    /\ excludeFile \in SUBSET Ids
    /\ mirror \in {m \in SUBSET Ids : excludeFile \subseteq m}
    /\ clock = 1
    /\ trackFile = Absent
    /\ cacheFile = NoCache
    /\ github_base = FALSE
    /\ github_refs = {}
    /\ github_pulls = [n \in Ids |-> <<>>]
    /\ pc = "idle"
    /\ run = 0
    /\ exclude_prs = {}
    /\ transferred_prs = {}
    /\ prs = <<>>
    /\ idx = 0
    /\ url = 0
    /\ exc = "none"
    /\ head_date = 0
    /\ created_pr = 0
    /\ item = 0
    /\ trail = <<>>
    /\ raised_at = "none"
    /\ touched = {}
    /\ wrote = FALSE
    /\ track_written = FALSE
    /\ prevComplete = FALSE
    /\ pushed = [n \in Ids |-> <<>>]
    /\ recorded_as = [n \in Ids |-> "no"]
    /\ halted_on = 0
    /\ requests = 0

\* ------------------------------------------------------- module-level load
\* exclude_prs = set(json.load(f)), or set() when the file is missing.
LoadExcluded == excludeFile

LoadTransferred_Nothing == {}

\* transferred_prs = set(json.load(f)), or set() when the file is missing.
LoadTransferred == IF trackFile.kind = "valid" THEN trackFile.ids ELSE {}

\* Nothing is left to do: every catalog identifier is excluded or recorded.
NothingLeft ==
    /\ cacheFile.kind = "valid"
    /\ \A k \in DOMAIN cacheFile.prs :
          cacheFile.prs[k].id \in exclude_prs \cup transferred_prs

Stopped == {"idle", "done", "halted", "aborted", "load_failed", "crashed"}

\* The script is started.  Lines 26-36 run at import: a state file that does
\* not parse raises there and main() is never reached.
StartRun ==
    /\ pc \in Stopped
    /\ run < MaxRuns
    /\ run' = run + 1
    /\ exclude_prs' = LoadExcluded
    /\ IF trackFile.kind = "malformed"
          THEN /\ pc' = "load_failed"
               /\ transferred_prs' = {}
          ELSE /\ pc' = "clone"
               /\ transferred_prs' = LoadTransferred
    /\ prs' = <<>>
    /\ idx' = 0
    /\ url' = 0
    /\ exc' = "none"
    /\ created_pr' = 0
    /\ item' = 0
    /\ trail' = <<>>
    /\ raised_at' = "none"
    /\ touched' = {}
    /\ wrote' = FALSE
    /\ track_written' = FALSE
    /\ prevComplete' = (pc \in {"done", "halted"} /\ NothingLeft)
    /\ halted_on' = IF pc = "halted" THEN item ELSE 0
    /\ requests' = 0
    /\ head_date' = 0
    /\ UNCHANGED <<env, clock, files, github, pushed, recorded_as>>

\* ensure_repo_cloned: git clone or git fetch --all; a failure is a
\* RuntimeError that nothing in main() catches.
EnsureRepoCloned ==
    /\ pc = "clone"
    /\ \E ok \in BOOLEAN : pc' = IF ok THEN "load" ELSE "aborted"
    /\ UNCHANGED <<env, clock, files, github, run, proc, hist>>

\* ------------------------------------------------------- catalog fetcher
\* The listing's page p and the "next" link it carries (0: none).
Page(p) == SubSeq(bbCatalog, (p - 1) * PageLen + 1, Min(p * PageLen, Len(bbCatalog)))

NextUrl_None(p) == 0

NextUrl(p) == IF p * PageLen < Len(bbCatalog) THEN p + 1 ELSE 0

\* load_or_fetch_bitbucket_prs, the cache file exists: the cached list, no
\* request; json.load raises on a file that does not parse and nothing
\* catches it.
LoadCache ==
    /\ pc = "load"
    /\ cacheFile.kind # "absent"
    /\ IF cacheFile.kind = "valid"
          THEN /\ prs' = cacheFile.prs
               /\ pc' = "sort"
          ELSE /\ prs' = prs
               /\ pc' = "aborted"
    /\ UNCHANGED <<env, clock, files, github, run, exclude_prs, transferred_prs,
                   idx, url, exc, head_date, created_pr, hist>>

\* Cache miss: url is the first page, prs = [].
BeginFetch ==
    /\ pc = "load"
    /\ cacheFile.kind = "absent"
    /\ prs' = <<>>
    /\ url' = 1
    /\ pc' = "fetch"
    /\ UNCHANGED <<env, clock, files, github, run, exclude_prs, transferred_prs,
                   idx, exc, head_date, created_pr, hist>>

FetchPage_KeepsPartial ==
    /\ pc = "fetch"
    /\ url # 0
    /\ requests' = requests + 1
    /\ pc' = "aborted"
    /\ cacheFile' = Cache(prs)
    /\ UNCHANGED <<env, clock, trackFile, github, run, proc, item, trail, raised_at,
                   touched, wrote, track_written, prevComplete, pushed, recorded_as,
                   halted_on>>

\* One turn of "while url": a page that answers extends prs and gives the
\* next url; raise_for_status() ends the run on any other answer.
FetchPage ==
    /\ pc = "fetch"
    /\ url # 0
    /\ requests' = requests + 1
    /\ \E ok \in BOOLEAN :
          IF ok
             THEN /\ prs' = prs \o Page(url)
                  /\ url' = NextUrl(url)
                  /\ pc' = "fetch"
             ELSE /\ pc' = "aborted"
                  /\ UNCHANGED <<prs, url>>
    /\ UNCHANGED <<env, clock, files, github, run, exclude_prs, transferred_prs,
                   idx, exc, head_date, created_pr, item, trail, raised_at, touched,
                   wrote, track_written, prevComplete, pushed, recorded_as, halted_on>>

\* The loop has ended: open(BITBUCKET_CACHE_FILE, 'w') creates the file.
OpenCacheFile ==
    /\ pc = "fetch"
    /\ url = 0
    /\ cacheFile' = PartialCache
    /\ pc' = "cache_dump"
    /\ UNCHANGED <<env, clock, trackFile, github, run, proc, hist>>

\* json.dump(prs, f, indent=2) and the close of the file: the whole list is
\* in the cache file.
DumpCacheFile ==
    /\ pc = "cache_dump"
    /\ cacheFile' = Cache(prs)
    /\ pc' = "sort"
    /\ UNCHANGED <<env, clock, trackFile, github, run, proc, hist>>

\* ------------------------------------------------------------------ sort
\* Position of s[i] after a stable sort by created_on.
Rank(s, i) ==
    Cardinality({j \in DOMAIN s :
        \/ s[j].created_on < s[i].created_on
        \/ (s[j].created_on = s[i].created_on /\ j <= i)})

Unsorted(s) == s

\* prs.sort(key=lambda x: x["created_on"])
SortByCreatedOn(s) ==
    [k \in 1..Len(s) |-> s[CHOOSE i \in DOMAIN s : Rank(s, i) = k]]

SortCatalog ==
    /\ pc = "sort"
    /\ prs' = SortByCreatedOn(prs)
    /\ idx' = 0
    /\ pc' = "loop"
    /\ UNCHANGED <<env, clock, files, github, run, exclude_prs, transferred_prs,
                   url, exc, head_date, created_pr, hist>>

\* ------------------------------------------------------------ driver loop
\* pr_id of the item the loop is at.
cur == prs[idx].id

IsExcluded_Never(n) == FALSE

\* pr_id in exclude_prs
IsExcluded(n) == n \in exclude_prs

AlreadyTransferred_Never(n) == FALSE

\* pr_id in transferred_prs
AlreadyTransferred(n) == n \in transferred_prs

\* The for loop is exhausted: main() returns.
LoopDone ==
    /\ pc = "loop"
    /\ idx = Len(prs)
    /\ pc' = "done"
    /\ UNCHANGED <<env, clock, files, github, run, proc, hist>>

\* "Skipping excluded PR": continue.
SkipExcluded ==
    /\ pc = "loop"
    /\ idx < Len(prs)
    /\ IsExcluded(prs[idx + 1].id)
    /\ idx' = idx + 1
    /\ UNCHANGED <<env, clock, files, github, pc, run, exclude_prs, transferred_prs,
                   prs, url, exc, head_date, created_pr, hist>>

\* "Skipping already transferred PR": continue.
SkipTransferred ==
    /\ pc = "loop"
    /\ idx < Len(prs)
    /\ ~IsExcluded(prs[idx + 1].id)
    /\ AlreadyTransferred(prs[idx + 1].id)
    /\ idx' = idx + 1
    /\ UNCHANGED <<env, clock, files, github, pc, run, exclude_prs, transferred_prs,
                   prs, url, exc, head_date, created_pr, hist>>

\* The item enters the try block.
BeginItem ==
    /\ pc = "loop"
    /\ idx < Len(prs)
    /\ ~IsExcluded(prs[idx + 1].id)
    /\ ~AlreadyTransferred(prs[idx + 1].id)
    /\ idx' = idx + 1
    /\ pc' = "sync"
    /\ exc' = "none"
    /\ item' = prs[idx + 1].id
    /\ trail' = <<>>
    /\ raised_at' = "none"
    /\ touched' = touched \cup {prs[idx + 1].id}
    /\ head_date' = 0
    /\ UNCHANGED <<env, clock, files, github, run, exclude_prs, transferred_prs,
                   prs, url, created_pr, wrote, track_written, prevComplete, halted_on,
                   requests,
                   pushed, recorded_as>>

\* An exception leaves the try block at step s.
Raise(s, e) ==
    /\ pc' = "except"
    /\ exc' = e
    /\ raised_at' = s

SyncBaseBranch_Fatal ==
    /\ pc = "sync"
    /\ \E ok \in BOOLEAN :
          IF ok
             THEN /\ pc' = "verify"
                  /\ github_base' = TRUE
                  /\ wrote' = TRUE
                  /\ trail' = Append(trail, "sync")
                  /\ UNCHANGED <<exc, raised_at>>
             ELSE /\ Raise("sync", "GitFailed")
                  /\ UNCHANGED <<github_base, wrote, trail>>
    /\ UNCHANGED <<env, clock, files, github_refs, github_pulls, run, exclude_prs,
                   transferred_prs, prs, idx, url, head_date, created_pr,
                   item, touched, track_written, prevComplete, halted_on,
                   requests, pushed, recorded_as>>

\* sync_base_branch: git push --force of the base branch; a failure is
\* caught inside and printed.
SyncBaseBranch ==
    /\ pc = "sync"
    /\ \E ok \in BOOLEAN :
          /\ github_base' = (github_base \/ ok)
          /\ wrote' = (wrote \/ ok)
          /\ trail' = Append(trail, IF ok THEN "sync" ELSE "sync_failed")
    /\ pc' = "verify"
    /\ UNCHANGED <<env, clock, files, github_refs, github_pulls, run, proc,
                   item, raised_at, touched, track_written, prevComplete, halted_on,
                   requests, pushed,
                   recorded_as>>

\* branch_exists: git rev-parse --verify origin/<source>; any failure of the
\* command is False.  The command can succeed only if the ref is there.
VerifyRef ==
    /\ pc = "verify"
    /\ \E found \in BOOLEAN :
          /\ found => cur \in mirror
          /\ IF found
                THEN /\ pc' = "checkout"
                     /\ trail' = Append(trail, "verify")
                     /\ UNCHANGED <<exc, raised_at>>
                ELSE /\ Raise("verify", "BranchNotFound")
                     /\ UNCHANGED trail
    /\ UNCHANGED <<env, clock, files, github, run, exclude_prs, transferred_prs,
                   prs, idx, url, head_date, created_pr, item, touched, wrote,
                   track_written, prevComplete, halted_on,
                   requests, pushed, recorded_as>>

\* git checkout -B temp-src-<id> origin/<source>
Checkout ==
    /\ pc = "checkout"
    /\ \E ok \in BOOLEAN :
          IF ok
             THEN /\ pc' = "amend"
                  /\ head_date' = 0
                  /\ trail' = Append(trail, "checkout")
                  /\ UNCHANGED <<exc, raised_at>>
             ELSE /\ Raise("checkout", "GitFailed")
                  /\ UNCHANGED <<head_date, trail>>
    /\ UNCHANGED <<env, clock, files, github, run, exclude_prs, transferred_prs,
                   prs, idx, url, created_pr, item, touched, wrote, track_written,
                   prevComplete, halted_on,
                   requests, pushed, recorded_as>>

\* date_str = datetime.now(...), to the second; git commit --amend --date.
\* Up to one second has passed since the clock was last read.
Amend ==
    /\ pc = "amend"
    /\ \E now \in clock..Min(clock + 1, MaxClock) :
          /\ clock' = now
          /\ \E ok \in BOOLEAN :
                IF ok
                   THEN /\ pc' = "push"
                        /\ head_date' = now
                        /\ trail' = Append(trail, "amend")
                        /\ UNCHANGED <<exc, raised_at>>
                   ELSE /\ Raise("amend", "GitFailed")
                        /\ UNCHANGED <<head_date, trail>>
    /\ UNCHANGED <<env, files, github, run, exclude_prs, transferred_prs,
                   prs, idx, url, created_pr, item, touched, wrote, track_written,
                   prevComplete, halted_on,
                   requests, pushed, recorded_as>>

\* git push --force temp-src-<id>:bitbucket-pr-<id>
PushTemp ==
    /\ pc = "push"
    /\ \E ok \in BOOLEAN :
          IF ok
             THEN /\ pc' = "create"
                  /\ github_refs' = {r \in github_refs : r[1] # cur}
                                       \cup {<<cur, head_date>>}
                  /\ pushed' = [pushed EXCEPT ![cur] = Append(@, head_date)]
                  /\ wrote' = TRUE
                  /\ trail' = Append(trail, "push")
                  /\ UNCHANGED <<exc, raised_at>>
             ELSE /\ Raise("push", "GitFailed")
                  /\ UNCHANGED <<github_refs, pushed, wrote, trail>>
    /\ UNCHANGED <<env, clock, files, github_base, github_pulls, run, exclude_prs,
                   transferred_prs, prs, idx, url, head_date, created_pr, item, touched,
                   track_written, prevComplete, halted_on,
                   requests, recorded_as>>

\* ---------------------------------------------------------------- GitHub
\* What a request to the GitHub API can come back with: a success status,
\* 422, another status that raise_for_status() rejects, or no reply at all
\* (requests raises a transport error; the request had no effect).
CreateReplies == {"created", "rejected", "error", "no_reply"}
CloseReplies  == {"ok", "error", "no_reply"}
\* 204, 404, any other status, or no reply.
DeleteReplies == {"deleted", "absent", "other", "no_reply"}

\* create_github_pull_request: 422 raises Exception, raise_for_status() the
\* rest; requests.post raises by itself when there is no reply.
CreateRaises(reply) ==
    CASE reply = "created"  -> "none"
      [] reply = "rejected" -> "CreationRejected"
      [] reply = "error"    -> "HTTPError"
      [] reply = "no_reply" -> "ConnectionError"

CloseRaises_Never(reply) == "none"

\* close_github_pull_request: resp.raise_for_status()
CloseRaises(reply) ==
    CASE reply = "ok"       -> "none"
      [] reply = "error"    -> "HTTPError"
      [] reply = "no_reply" -> "ConnectionError"

\* delete_github_branch: every status is only printed; requests.delete
\* raises by itself when there is no reply.
DeleteRaises(reply) == IF reply = "no_reply" THEN "ConnectionError" ELSE "none"

CreatePullRequest ==
    /\ pc = "create"
    /\ \E reply \in CreateReplies :
          IF CreateRaises(reply) = "none"
             THEN /\ pc' = "close"
                  /\ github_pulls' = [github_pulls EXCEPT ![cur] = Append(@, "open")]
                  /\ created_pr' = Len(github_pulls[cur]) + 1
                  /\ trail' = Append(trail, "create")
                  /\ wrote' = TRUE
                  /\ UNCHANGED <<exc, raised_at>>
             ELSE /\ Raise("create", CreateRaises(reply))
                  /\ UNCHANGED <<github_pulls, created_pr, trail, wrote>>
    /\ UNCHANGED <<env, clock, files, github_base, github_refs, run, exclude_prs,
                   transferred_prs, prs, idx, url, head_date, item, touched,
                   track_written, prevComplete, halted_on,
                   requests, pushed, recorded_as>>

ClosePullRequest ==
    /\ pc = "close"
    /\ \E reply \in CloseReplies :
          /\ github_pulls' = IF reply = "ok"
                                THEN [github_pulls EXCEPT ![cur][created_pr] = "closed"]
                                ELSE github_pulls
          /\ IF CloseRaises(reply) = "none"
                THEN /\ pc' = "delete"
                     /\ trail' = Append(trail, "close")
                     /\ UNCHANGED <<exc, raised_at>>
                ELSE /\ Raise("close", CloseRaises(reply))
                     /\ UNCHANGED trail
    /\ UNCHANGED <<env, clock, files, github_base, github_refs, run, exclude_prs,
                   transferred_prs, prs, idx, url, head_date, created_pr, item, touched,
                   wrote, track_written, prevComplete, halted_on,
                   requests, pushed, recorded_as>>

DeleteBranch_Skipped ==
    /\ pc = "delete"
    /\ pc' = "save_open"
    /\ UNCHANGED <<env, clock, files, github, run, proc, hist>>

\* 204 removes the branch; 404 says it is not there; any other status leaves
\* it where it is.
DeleteBranch ==
    /\ pc = "delete"
    /\ \E reply \in DeleteReplies :
          /\ github_refs' = IF reply \in {"deleted", "absent"}
                               THEN {r \in github_refs : r[1] # cur}
                               ELSE github_refs
          /\ IF DeleteRaises(reply) = "none"
                THEN /\ pc' = "save_open"
                     /\ trail' = Append(trail, "delete_" \o reply)
                     /\ UNCHANGED <<exc, raised_at>>
                ELSE /\ Raise("delete", DeleteRaises(reply))
                     /\ UNCHANGED trail
    /\ UNCHANGED <<env, clock, files, github_base, github_pulls, run, exclude_prs,
                   transferred_prs, prs, idx, url, head_date, created_pr, item, touched,
                   wrote, track_written, prevComplete, halted_on,
                   requests, pushed, recorded_as>>

\* ------------------------------------------------------------- state store
SaveTransferred_NoAdd(s, n) == s

\* transferred_prs.add(pr_id)
SaveTransferred(s, n) == s \cup {n}

DumpContents_OnlyLast(s, n) == {n}

\* json.dump(list(transferred_prs), f)
DumpContents(s, n) == s

OpenTrackFile_ClearsExcluded ==
    /\ transferred_prs' = SaveTransferred(transferred_prs, cur)
    /\ trackFile' = Malformed
    /\ track_written' = TRUE
    /\ exclude_prs' = {}
    /\ UNCHANGED <<env, clock, cacheFile, github, run, prs, idx, url,
                   exc, head_date, created_pr, item, trail, raised_at, touched,
                   wrote, prevComplete, halted_on, requests, pushed, recorded_as>>

\* save_transferred up to open(TRACK_FILE, 'w'): the identifier is in the
\* set and the file is truncated; nothing of it parses until the dump ends.
OpenTrackFile ==
    /\ transferred_prs' = SaveTransferred(transferred_prs, cur)
    /\ trackFile' = Malformed
    /\ track_written' = TRUE
    /\ UNCHANGED <<env, clock, cacheFile, github, run, exclude_prs, prs, idx, url,
                   exc, head_date, created_pr, item, trail, raised_at, touched,
                   wrote, prevComplete, halted_on,
                   requests, pushed, recorded_as>>

\* The dump and the close of the file: save_transferred returns.
DumpTrackFile(how) ==
    /\ trackFile' = Valid(DumpContents(transferred_prs, cur))
    /\ trail' = Append(trail, "save")
    /\ recorded_as' = [recorded_as EXCEPT ![cur] = how]
    /\ halted_on' = 0
    /\ UNCHANGED <<env, clock, cacheFile, github, run, proc, item, raised_at,
                   touched, wrote, track_written, prevComplete, requests, pushed>>

\* save_transferred(pr_id) at the end of the try block.
RecordOpen ==
    /\ pc = "save_open"
    /\ pc' = "save_dump"
    /\ OpenTrackFile

RecordDump ==
    /\ pc = "save_dump"
    /\ pc' = "sleep"
    /\ DumpTrackFile("transfer")

\* time.sleep(1)
Sleep ==
    /\ pc = "sleep"
    /\ clock < MaxClock
    /\ clock' = clock + 1
    /\ pc' = "loop"
    /\ UNCHANGED <<env, files, github, run, proc, hist>>

\* ------------------------------------------------------- exception handler
SkipMarker == "not found. Skipping PR"

Message_NoMarker(e) == {"Remote branch", "not found"}

\* str(e) of each exception the try block can raise, as fragments.
Message(e) ==
    CASE e = "BranchNotFound"   -> {"Remote branch", SkipMarker}
      [] e = "GitFailed"        -> {"Git command failed"}
      [] e = "CreationRejected" -> {"GitHub PR creation failed"}
      [] e = "HTTPError"        -> {"Error for url"}
      [] e = "ConnectionError"  -> {"Connection aborted"}

ContainsSkipMarker_Always(e) == TRUE

\* "not found. Skipping PR" in str(e)
ContainsSkipMarker(e) == SkipMarker \in Message(e)

\* except: the skippable case goes on to save_transferred(pr_id).
HandleSkippable ==
    /\ pc = "except"
    /\ ContainsSkipMarker(exc)
    /\ pc' = "skip_open"
    /\ UNCHANGED <<env, clock, files, github, run, proc, hist>>

HandleFatal_Retries ==
    /\ pc = "except"
    /\ ~ContainsSkipMarker(exc)
    /\ pc' = "sync"
    /\ exc' = "none"
    /\ raised_at' = "none"
    /\ UNCHANGED <<env, clock, files, github, run, exclude_prs, transferred_prs,
                   prs, idx, url, head_date, created_pr, item, trail, touched,
                   wrote, track_written, prevComplete, halted_on, requests,
                   pushed, recorded_as>>

\* except: anything else is printed and the loop is left (break).
HandleFatal ==
    /\ pc = "except"
    /\ ~ContainsSkipMarker(exc)
    /\ pc' = "halted"
    /\ halted_on' = 0
    /\ UNCHANGED <<env, clock, files, github, run, proc, item, trail, raised_at,
                   touched, wrote, track_written, prevComplete, pushed, recorded_as,
                   requests>>

\* save_transferred(pr_id) in the handler, then continue.
SkipOpen ==
    /\ pc = "skip_open"
    /\ pc' = "skip_dump"
    /\ OpenTrackFile

SkipDump ==
    /\ pc = "skip_dump"
    /\ pc' = "loop"
    /\ DumpTrackFile("skip")

\* ------------------------------------------------------------------ crash
\* The process is killed at any step: what it held in memory is gone, and
\* with it the account of the run; the files, the clone and GitHub stay as
\* they are.
Crash ==
    /\ pc \notin Stopped
    /\ pc' = "crashed"
    /\ exclude_prs' = {}
    /\ transferred_prs' = {}
    /\ prs' = <<>>
    /\ idx' = 0
    /\ url' = 0
    /\ exc' = "none"
    /\ created_pr' = 0
    /\ item' = 0
    /\ trail' = <<>>
    /\ raised_at' = "none"
    /\ touched' = {}
    /\ wrote' = FALSE
    /\ track_written' = FALSE
    /\ prevComplete' = FALSE
    /\ halted_on' = 0
    /\ requests' = 0
    /\ head_date' = 0
    /\ UNCHANGED <<env, clock, files, github, run, pushed, recorded_as>>

Next ==
    \/ StartRun
    \/ EnsureRepoCloned
    \/ LoadCache
    \/ BeginFetch
    \/ FetchPage
    \/ OpenCacheFile
    \/ DumpCacheFile
    \/ SortCatalog
    \/ LoopDone
    \/ SkipExcluded
    \/ SkipTransferred
    \/ BeginItem
    \/ SyncBaseBranch
    \/ VerifyRef
    \/ Checkout
    \/ Amend
    \/ PushTemp
    \/ CreatePullRequest
    \/ ClosePullRequest
    \/ DeleteBranch
    \/ RecordOpen
    \/ RecordDump
    \/ Sleep
    \/ HandleSkippable
    \/ HandleFatal
    \/ SkipOpen
    \/ SkipDump
    \/ Crash

Spec == Init /\ [][Next]_vars

\* The same program on a listing that repeats a pull request.
SpecRepeat == InitRepeat /\ [][Next]_vars

\* ================================================================ claims
\* Identifiers whose save_transferred call has returned, in any run.
Recorded == {n \in Ids : recorded_as[n] # "no"}

\* The steps of the trail that changed something on GitHub.
DestWrites(tr) ==
    Range(tr) \cap {"sync", "push", "create", "close", "delete_deleted"}

\* The steps of the trail that called git or GitHub for the temporary
\* branch or the pull request.
BranchSteps(tr) ==
    Range(tr) \cap {"checkout", "amend", "push", "create", "close",
                    "delete_deleted", "delete_absent", "delete_other"}

HasRef(n) == \E r \in github_refs : r[1] = n

\* C1: a run that follows a run which ended with every catalog identifier
\* excluded or in transferred_prs begins no item, makes no write on GitHub
\* and does not open the state file for writing.
C1_SecondRunWritesNothing ==
    prevComplete => (~wrote /\ ~track_written /\ touched = {} /\ item = 0)

C1_Witness ==
    /\ prevComplete
    /\ pc = "done"
    /\ \E n \in Ids : recorded_as[n] = "transfer"
    /\ \E n \in Ids : recorded_as[n] = "skip"

\* C2: for an identifier of the exclude list no item ever begins, nothing is
\* pushed, created or left on GitHub for it, and it never enters
\* transferred_prs or the state file.
C2_ExcludedUntouched ==
    \A n \in exclude_prs \cup excludeFile :
        /\ n \notin touched
        /\ item # n
        /\ n \notin transferred_prs
        /\ n \notin PersistedIds
        /\ recorded_as[n] = "no"
        /\ pushed[n] = <<>>
        /\ github_pulls[n] = <<>>
        /\ ~HasRef(n)

C2_Witness ==
    /\ pc = "done"
    /\ \E n \in exclude_prs : \E m \in Ids :
          /\ n < m
          /\ recorded_as[m] = "transfer"
          /\ \E k \in DOMAIN prs : prs[k].id = n

\* C3: an identifier recorded by the end of the try block has its pull
\* request, the last one created for it, closed on GitHub, then and in every
\* later state of this and of later runs.
C3_RecordedIsClosed ==
    \A n \in Ids :
        (recorded_as[n] = "transfer" \/ (pc = "save_dump" /\ n = item)) =>
            /\ github_pulls[n] # <<>>
            /\ github_pulls[n][Len(github_pulls[n])] = "closed"

\* An earlier attempt left a pull request open; the one of the recorded item
\* is closed, and a later run has gone through the catalog.
C3_Witness ==
    /\ run = 2
    /\ pc = "done"
    /\ \E n \in Ids :
          /\ recorded_as[n] = "transfer"
          /\ Len(github_pulls[n]) = 2
          /\ github_pulls[n][1] = "open"

\* The last item raised "Remote branch ... not found" and its source branch
\* is indeed missing in the clone.
MissingBranchItem == exc = "BranchNotFound" /\ item \in Ids /\ item \notin mirror

\* What C4 and its amended form share: no step for the temporary branch or
\* the pull request, the run is not halted, and once save_transferred has
\* returned the identifier is in the set and in the file and the loop goes on.
SkipRecordsAndContinues ==
    /\ BranchSteps(trail) = {}
    /\ raised_at = "verify"
    /\ pc \in {"except", "skip_open", "skip_dump", "loop", "done"}
    /\ pc = "skip_dump" => item \in transferred_prs
    /\ "save" \in Range(trail) =>
          /\ item \in transferred_prs
          /\ item \in PersistedIds
          /\ recorded_as[item] = "skip"
          /\ pc \in {"loop", "done"}

\* C4 as stated: an item whose source branch is missing makes no write on
\* GitHub at all, the base-branch push included, is recorded and the run
\* goes on.
C4_Original ==
    MissingBranchItem => (DestWrites(trail) = {} /\ SkipRecordsAndContinues)

\* C4 amended: the only write on GitHub such an item can make is the push of
\* the base branch, which precedes the check of the source branch.
C4_SkipWritesOnlyBase ==
    MissingBranchItem => (DestWrites(trail) \subseteq {"sync"} /\ SkipRecordsAndContinues)

\* The base branch was pushed for the skipped item, which is recorded, and
\* the loop stands before a further item of the catalog.
C4_Witness ==
    /\ MissingBranchItem
    /\ trail = <<"sync", "save">>
    /\ pc = "loop"
    /\ idx < Len(prs)
    /\ item \in PersistedIds

FatalKinds == {"GitFailed", "CreationRejected", "HTTPError", "ConnectionError"}

\* C5: once checkout, amend, push, create or close has raised, the run does
\* nothing but leave the loop: the identifier is in neither the set nor the
\* file, the file is as the last save left it, and no later item of the
\* catalog has begun.
C5_FatalHalts ==
    exc \in FatalKinds =>
        /\ pc \in {"except", "halted"}
        /\ raised_at \in {"checkout", "amend", "push", "create", "close", "delete"}
        /\ prs[idx].id = item
        /\ item \notin transferred_prs
        /\ item \notin PersistedIds
        /\ "save" \notin Range(trail)
        /\ trackFile.kind # "malformed"
        /\ PersistedIds = transferred_prs
        /\ \A k \in DOMAIN prs : k > idx => prs[k].id \notin touched

\* Creation was rejected with 422 and the run is halted before an item that
\* is neither excluded nor recorded.
C5_Witness ==
    /\ pc = "halted"
    /\ exc = "CreationRejected"
    /\ idx < Len(prs)
    /\ prs[idx + 1].id \notin exclude_prs \cup transferred_prs

\* The trail shows create, close and the delete call, in this order, each
\* returned without raising.
CreatedClosedDeleted(tr) ==
    \E k \in 1..(Len(tr) - 2) :
        /\ tr[k] = "create"
        /\ tr[k + 1] = "close"
        /\ tr[k + 2] \in {"delete_deleted", "delete_absent", "delete_other"}

\* save_transferred is running or has returned for the current item.
Adding == pc \in {"save_dump", "skip_dump"}

\* The set of a run that got past the module-level load holds every
\* identifier for which save_transferred has returned, in this run or in an
\* earlier one, and nothing but these and the identifier being added.
ProcessedSetGrows ==
    pc \notin {"idle", "load_failed", "crashed"} =>
        /\ Recorded \subseteq transferred_prs
        /\ transferred_prs \subseteq Recorded \cup (IF Adding THEN {item} ELSE {})

\* C6 as stated: the set never loses an element, and every identifier is
\* added only after create, close and delete-branch returned for it.
C6_Original ==
    /\ ProcessedSetGrows
    /\ Adding => CreatedClosedDeleted(trail)
    /\ \A n \in Recorded : recorded_as[n] = "transfer"

\* C6 amended: the set never loses an element, and every identifier is
\* added either after create, close and delete-branch returned for it, or by
\* the handler after the check of the source branch raised, with no create,
\* close or delete call made for it.
C6_AddedAfterStepsOrSkip ==
    /\ ProcessedSetGrows
    /\ pc = "save_dump" => (CreatedClosedDeleted(trail) /\ raised_at = "none")
    /\ pc = "skip_dump" => (BranchSteps(trail) = {} /\ raised_at = "verify")
    /\ \A n \in Recorded : recorded_as[n] = "transfer" => github_pulls[n] # <<>>
    /\ (item \in Recorded /\ pc \in {"sleep", "loop", "done", "halted"}) =>
          IF recorded_as[item] = "transfer"
             THEN CreatedClosedDeleted(trail)
             ELSE BranchSteps(trail) = {} /\ raised_at = "verify"

\* A later run has loaded a set that holds one identifier recorded after a
\* transfer and one recorded by the handler.
C6_Witness ==
    /\ run = 2
    /\ pc = "loop"
    /\ \E n, m \in transferred_prs :
          recorded_as[n] = "transfer" /\ recorded_as[m] = "skip"

\* C7: wherever the process stops, the state file holds every identifier for
\* which save_transferred has returned.
C7_CrashConsistent == Recorded \subseteq PersistedIds

\* C8: any two commits pushed to bitbucket-pr-<id> for the same identifier
\* differ.  The source tip is the same, so the commit is its amended date.
C8_DistinctShas ==
    \A n \in Ids : \A i, j \in DOMAIN pushed[n] :
        i < j => pushed[n][i] # pushed[n][j]

\* C9 as stated: when an item begins, every pull request of the catalog
\* created earlier is in transferred_prs, an excluded one too.
C9_Original ==
    \A i, j \in DOMAIN bbCatalog :
        (bbCatalog[i].created_on < bbCatalog[j].created_on
            /\ bbCatalog[j].id \in touched)
        => bbCatalog[i].id \in transferred_prs

\* C9 amended: when an item begins, every pull request of the catalog
\* created earlier is in transferred_prs or in exclude_prs.
C9_OlderRecordedOrExcluded ==
    \A i, j \in DOMAIN bbCatalog :
        (bbCatalog[i].created_on < bbCatalog[j].created_on
            /\ bbCatalog[j].id \in touched)
        => bbCatalog[i].id \in transferred_prs \cup exclude_prs

\* The listing came newest first, and an item has begun in the same run as
\* an older one, neither of them excluded.
C9_Witness ==
    /\ bbCatalog = NewestFirst
    /\ \E n, m \in touched : n < m /\ item = m /\ recorded_as[n] = "transfer"

\* C10: once the pull request is created and closed, nothing the delete call
\* does keeps the item from save_transferred or halts the run.
C10_DeleteNeverHalts ==
    "close" \in Range(trail) =>
        /\ exc = "none"
        /\ pc \in {"delete", "save_open", "save_dump", "sleep", "loop", "done"}

\* The calls of the try block in the order of the source, each with the
\* names under which the trail keeps its return.
StepOrder ==
    <<{"sync", "sync_failed"}, {"verify"}, {"checkout"}, {"amend"}, {"push"},
      {"create"}, {"close"},
      {"delete_deleted", "delete_absent", "delete_other"}, {"save"}>>

\* The trail is a beginning of StepOrder: every step once, none before the
\* one ahead of it has returned.
InOrder(tr) ==
    /\ Len(tr) <= Len(StepOrder)
    /\ \A k \in DOMAIN tr : tr[k] \in StepOrder[k]

\* The place in StepOrder of the call the process is about to make.
Position(p) ==
    CASE p = "sync" -> 1 [] p = "verify" -> 2 [] p = "checkout" -> 3
      [] p = "amend" -> 4 [] p = "push" -> 5 [] p = "create" -> 6
      [] p = "close" -> 7 [] p = "delete" -> 8 [] p = "save_open" -> 9
      [] p = "save_dump" -> 9 [] OTHER -> 0

AllSucceeded ==
    <<"sync", "verify", "checkout", "amend", "push", "create", "close",
      "delete_deleted", "save">>

\* C11: as long as nothing has raised for the item, the calls that returned
\* for it are a beginning of: push of the base branch, check of the source
\* branch, checkout, amend, push of bitbucket-pr-<id>, create, close, delete,
\* save_transferred; each once, the call about to be made being the next of
\* the list; and an item recorded by the try block has made all nine.
C11_StepsInOrder ==
    /\ raised_at = "none" => InOrder(trail)
    /\ Position(pc) # 0 => (raised_at = "none" /\ Len(trail) = Position(pc) - 1)
    /\ (raised_at = "none" /\ "save" \in Range(trail)) =>
          /\ Len(trail) = Len(StepOrder)
          /\ recorded_as[item] = "transfer"
          /\ pc \in {"sleep", "loop", "done"}
    /\ (exc # "none" /\ exc # "BranchNotFound") => InOrder(trail)

\* Every call of the item succeeded: the base branch is on GitHub, the pull
\* request is closed, the temporary branch is gone, the identifier is in the
\* file.
C11_Witness ==
    /\ trail = AllSucceeded
    /\ item \in mirror
    /\ pc = "loop"
    /\ github_base
    /\ ~HasRef(item)
    /\ github_pulls[item] = <<"closed">>
    /\ item \in PersistedIds

\* Processing of the last item begun has ended: it is recorded, or the run
\* has left the loop on it.
ItemEnded == item # 0 /\ pc \in {"sleep", "loop", "done", "halted"}

\* C12: when the processing of an item has ended, by the try block, by the
\* handler's skip or by a halt, bitbucket-pr-<id> is not on GitHub unless the
\* delete call was made and failed.
C12_TempBranchGone ==
    (ItemEnded /\ HasRef(item)) =>
        ("delete_other" \in Range(trail) \/ raised_at = "delete")

\* What GitHub holds for pull request n.
OnGitHub(n) == <<github_pulls[n], {r \in github_refs : r[1] = n}>>

\* A step of the run that follows a halt leaves alone whatever belongs to an
\* identifier recorded earlier, and begins no item for it.
RecordedLeftAlone ==
    \A n \in Ids :
        recorded_as[n] # "no" =>
            /\ OnGitHub(n)' = OnGitHub(n)
            /\ pushed'[n] = pushed[n]
            /\ recorded_as'[n] = recorded_as[n]
            /\ (item' = n => item = n)

\* The first item such a run begins is the one the halted run stopped on,
\* and it enters the try block with nothing carried over.
RetryBeginsAfresh ==
    (halted_on # 0 /\ item = 0 /\ item' # 0) =>
        /\ item' = halted_on
        /\ pc' = "sync"
        /\ trail' = <<>>
        /\ head_date' = 0
        /\ created_pr' = 0
        /\ exc' = "none"

\* While that item is reprocessed, create is reached only over a new
\* checkout, amend and push made in this run, and it makes a new pull request.
RetryRunsAllSteps ==
    (halted_on # 0 /\ item # 0) =>
        /\ item = halted_on
        /\ recorded_as[item] = "no"
        /\ raised_at = "none" => InOrder(trail)
        /\ pc = "create" =>
              /\ SubSeq(trail, 2, 5) = <<"verify", "checkout", "amend", "push">>
              /\ <<item, head_date>> \in github_refs
        /\ pc \in {"close", "delete"} =>
              /\ created_pr = Len(github_pulls[item])
              /\ "create" \in Range(trail)

\* C13: in the invocation that follows a halt on item X, nothing is done for
\* an identifier recorded before the halt, X is the first item to enter the
\* try block, it enters at the push of the base branch, and its create comes
\* after a checkout, amend and push of this run.
C13_RetryFromFirstStep ==
    /\ [][run > 1 => RecordedLeftAlone]_vars
    /\ [][RetryBeginsAfresh]_vars
    /\ [](RetryRunsAllSteps)

\* The halted run had pushed the branch of X and created its pull request;
\* this run has passed a recorded identifier by and has pushed, created,
\* closed and deleted for X again.
C13_Witness ==
    /\ halted_on # 0
    /\ item = halted_on
    /\ pc = "save_open"
    /\ Len(pushed[item]) = 2
    /\ Len(github_pulls[item]) = 2
    /\ \E n \in Recorded : n # item /\ n \notin touched

\* raise_for_status() has ended the run in load_or_fetch_bitbucket_prs.
FetchFailed == pc = "aborted" /\ requests > 0

\* C14: when a page of the listing answers with an error status the run is
\* over: there is no cache file, not even of the pages already read, no item
\* has begun, nothing was written on GitHub and the state file was not
\* opened for writing; and no cache file exists while pages are being read.
C14_FetchFailureWritesNothing ==
    /\ FetchFailed =>
          /\ cacheFile = NoCache
          /\ url = requests
          /\ idx = 0
          /\ item = 0
          /\ touched = {}
          /\ trail = <<>>
          /\ ~wrote
          /\ ~track_written
    /\ pc = "fetch" => cacheFile = NoCache

\* The first page was read, the second was refused.
C14_Witness ==
    /\ FetchFailed
    /\ requests = 2
    /\ prs = Page(1)
    /\ prs # <<>>

\* A call of load_or_fetch_bitbucket_prs that finds the cache file sends no
\* request and leaves the file alone.
CacheHitStep == pc = "load" /\ cacheFile.kind # "absent" /\ pc' \notin {"load", "crashed"}

CacheHitNoRequestNoWrite ==
    CacheHitStep => (requests' = requests /\ cacheFile' = cacheFile /\ url' = url)

\* Such a call returns the contents of the file as they are.
CacheHitReturnsCache ==
    CacheHitStep => (prs' = cacheFile.prs /\ pc' = "sort")

\* Such a call returns the contents of a file that parses and raises on one
\* that does not, which ends the run.
CacheHitReturnsOrRaises ==
    CacheHitStep =>
        IF cacheFile.kind = "valid"
           THEN prs' = cacheFile.prs /\ pc' = "sort"
           ELSE pc' = "aborted"

\* A request goes to Bitbucket only while there is no cache file.
RequestOnlyWithoutCache == requests' > requests => cacheFile.kind = "absent"

\* The write of the cache file is begun once, when the page just read
\* carried no next link and no file exists; it ends with the whole listing
\* in the file, in the order of arrival; a complete file never changes.
CacheWrittenOnceWhole ==
    cacheFile' # cacheFile =>
        \/ /\ pc = "fetch"
           /\ url = 0
           /\ requests * PageLen >= Len(bbCatalog)
           /\ cacheFile = NoCache
           /\ cacheFile' = PartialCache
        \/ /\ pc = "cache_dump"
           /\ cacheFile = PartialCache
           /\ cacheFile' = Cache(bbCatalog)

\* C15 as stated: whenever the cache file exists the call returns its
\* contents, sends no request and does not write it; the file is written at
\* most once, after the last page of the listing.
C15_Original ==
    /\ [][CacheHitReturnsCache]_vars
    /\ [][CacheHitNoRequestNoWrite]_vars
    /\ [][RequestOnlyWithoutCache]_vars
    /\ [][CacheWrittenOnceWhole]_vars

\* C15 amended: whenever the cache file exists the call sends no request and
\* does not write it; it returns the contents of a file that parses and
\* raises on a file that a killed write left incomplete; the file is written
\* at most once, after the last page of the listing.
C15_CacheWriteOnce ==
    /\ [][CacheHitReturnsOrRaises]_vars
    /\ [][CacheHitNoRequestNoWrite]_vars
    /\ [][RequestOnlyWithoutCache]_vars
    /\ [][CacheWrittenOnceWhole]_vars

\* A second run has taken the list from the cache file of the first, as it
\* arrived, newest first, without a request.
C15_Witness ==
    /\ run = 2
    /\ pc = "sort"
    /\ requests = 0
    /\ cacheFile = Cache(NewestFirst)
    /\ prs = NewestFirst

\* No step of a running process changes the excluded set it loaded.
ExcludedSetKept ==
    (pc \notin Stopped /\ pc' # "crashed") => exclude_prs' = exclude_prs

\* No step writes the exclude file.
ExcludeFileKept == excludeFile' = excludeFile

\* A step of save_transferred changes the set of recorded identifiers and
\* the state file, and nothing else that is kept.
SaveChangesOnlyTrack ==
    (pc \in {"save_open", "save_dump", "skip_open", "skip_dump"} /\ pc' # "crashed") =>
        /\ exclude_prs' = exclude_prs
        /\ transferred_prs' \subseteq transferred_prs \cup {item}
        /\ UNCHANGED <<excludeFile, cacheFile, github>>

\* C16: the excluded set of a run is what the exclude file held when the
\* script started, for the whole run; the exclude file is never written; and
\* save_transferred changes transferred_prs and the state file only.
C16_ExcludedReadOnly ==
    /\ [](pc \notin Stopped => exclude_prs = excludeFile)
    /\ [][ExcludedSetKept]_vars
    /\ [][ExcludeFileKept]_vars
    /\ [][SaveChangesOnlyTrack]_vars

\* A second run with a non-empty exclude list has recorded an item.
C16_Witness ==
    /\ run = 2
    /\ pc = "loop"
    /\ "save" \in Range(trail)
    /\ exclude_prs # {}
    /\ exclude_prs = excludeFile
    /\ item \in PersistedIds

\* Whatever the push of the base branch answered, the next call is the check
\* of the source branch, nothing was raised and nothing was recorded.
SyncGoesOn ==
    (pc = "sync" /\ pc' # "crashed") =>
        /\ pc' = "verify"
        /\ Len(trail') = 1
        /\ UNCHANGED <<exc, raised_at, transferred_prs, trackFile, recorded_as, idx>>

\* The push of the base branch failed for the last item begun.
SyncFailed == trail # <<>> /\ trail[1] = "sync_failed"

\* C17: after the push of the base branch, failed or not, the item goes on
\* to the check of its source branch; when the push failed, a halt of the
\* run on that item comes from a later call that raised, and a record of it
\* from the handler's skip or from the end of the try block.
C17_SyncNonFatal ==
    /\ [][SyncGoesOn]_vars
    /\ [](raised_at # "sync")
    /\ [](SyncFailed =>
            /\ pc = "halted" =>
                  (exc \in FatalKinds /\ raised_at \in
                      {"checkout", "amend", "push", "create", "close", "delete"})
            /\ (recorded_as[item] = "skip" /\ "save" \in Range(trail)) =>
                  (raised_at = "verify" /\ exc = "BranchNotFound")
            /\ (recorded_as[item] = "transfer" /\ "save" \in Range(trail)) =>
                  (raised_at = "none" /\ CreatedClosedDeleted(trail)))

\* The push of the base branch failed and the item was transferred all the
\* same; the base branch is not on GitHub.
C17_Witness ==
    /\ SyncFailed
    /\ ~github_base
    /\ recorded_as[item] = "transfer"
    /\ Len(trail) = Len(StepOrder)
    /\ pc = "loop"

\* The process is between the beginning of an item and the return of
\* save_transferred for it.
ItemInProcess ==
    pc \in {"sync", "verify", "checkout", "amend", "push", "create", "close",
            "delete", "save_open", "save_dump", "except", "skip_open", "skip_dump"}

\* C18: when the check of the source branch fails, the branch being there or
\* not, the exception is the skippable one: nothing is checked out, pushed or
\* created for the item, the run is not halted, save_transferred records the
\* identifier and the loop goes on; and an identifier recorded by the skip is
\* in the set of every later run and never begins an item again.
C18_VerifyFailureSkips ==
    /\ raised_at = "verify" =>
          /\ exc = "BranchNotFound"
          /\ pc \in {"except", "skip_open", "skip_dump", "loop", "done"}
          /\ Range(trail) \subseteq {"sync", "sync_failed", "save"}
          /\ pc \in {"loop", "done"} =>
                /\ recorded_as[item] = "skip"
                /\ item \in transferred_prs
                /\ item \in PersistedIds
    /\ \A n \in Ids :
          recorded_as[n] = "skip" =>
              /\ (ItemInProcess => item # n)
              /\ (pc \notin Stopped => n \in transferred_prs)

\* The source branch is in the clone, the check failed all the same and the
\* identifier was recorded; a later run went through the catalog without
\* beginning an item for it.
C18_Witness ==
    /\ run = 2
    /\ pc = "done"
    /\ \E n \in mirror :
          /\ recorded_as[n] = "skip"
          /\ n \notin touched
          /\ github_pulls[n] = <<>>
          /\ \E k \in DOMAIN prs : prs[k].id = n

\* An item enters the try block only for an identifier that has not entered
\* it before in this run.
BeginsOncePerRun ==
    (pc = "loop" /\ pc' = "sync") => prs[idx'].id \notin touched

\* The names under which the trail keeps a call of step p.
Returns(p) ==
    IF p = "delete" THEN {"delete_deleted", "delete_absent", "delete_other"}
    ELSE IF p = "sync" THEN {"sync", "sync_failed"}
    ELSE {p}

\* Within the item no call is made twice: no step returned twice, and the
\* call that is about to be made, or that raised, has not returned before.
NoCallTwice ==
    /\ \A i, j \in DOMAIN trail : i < j => trail[i] # trail[j]
    /\ \A p \in {"sync", "push", "create", "close", "delete"} :
          (pc = p \/ raised_at = p) => Range(trail) \cap Returns(p) = {}
    /\ Cardinality(Range(trail) \cap Returns("delete")) <= 1
    /\ Cardinality(Range(trail) \cap Returns("sync")) <= 1

\* C19: in one run an identifier enters the try block at most once, also
\* when the listing holds it twice, and within the try block the push of the
\* temporary branch, create, close and delete are each called at most once.
C19_NoRetryInRun ==
    /\ [][BeginsOncePerRun]_vars
    /\ [](NoCallTwice)
    /\ [](\A n \in Ids : Len(pushed[n]) <= run /\ Len(github_pulls[n]) <= run)

\* The listing holds an identifier twice; the first run has gone through all
\* of it and has pushed and created once for that identifier.
C19_Witness ==
    /\ run = 1
    /\ pc = "done"
    /\ idx = NumPRs + 1
    /\ \E i, j \in DOMAIN prs :
          /\ i < j
          /\ prs[i].id = prs[j].id
          /\ recorded_as[prs[i].id] = "transfer"
          /\ Len(pushed[prs[i].id]) = 1
          /\ Len(github_pulls[prs[i].id]) = 1

\* C20: whatever the external calls answer, GitHub holds at most one pull
\* request created for a Bitbucket pull request, also while the run that
\* follows a halt on that pull request goes through it again.
C20_OnePullPerSource ==
    \A n \in Ids : halted_on = n => Len(github_pulls[n]) <= 1

====
